---- MODULE Spec2Model ----
(***************************************************************************)
(* Model of the omi audio streaming server (src/main.go, the AGFS-capable  *)
(* program of lines 154-371): the WAV header encoder, the storage router   *)
(* (remote write with local fallback) and the HTTP handler around them.    *)
(*                                                                         *)
(* Bytes are naturals in 0..255.  A Go int is kept at its 64-bit width as  *)
(* a sequence of IntBytes base-256 digits, least significant first, so     *)
(* that uint32(...) is a real truncation.  File names and paths are        *)
(* sequences of one-character strings.                                     *)
(*                                                                         *)
(* Three specifications: Spec is the server with its requests handled      *)
(* concurrently, SpecSingle the server that receives a single request, and *)
(* SpecWav the encoder applied to payloads of any length.                  *)
(***************************************************************************)
EXTENDS Integers, Sequences, FiniteSets, TLC

(***************************************************************************)
(* Bounds of the model.                                                    *)
(***************************************************************************)
\* longest request body, in bytes
MaxBodyLen == 2
\* seconds the wall clock may advance during a run
MaxTicks == 1
\* I/O operations that may fail while a request is handled alone
MaxFaults == 2
\* I/O operations that may fail while requests are handled concurrently
MaxRaceFaults == 1

(***************************************************************************)
(* Program constants.                                                      *)
(***************************************************************************)
numChannels == 1
sampleRate == 16000
bitsPerSample == 16
\* make([]byte, 44)
HeaderLen == 44
\* the addend of uint32(36+dataLength)
RiffOverhead == 36
\* the fmt chunk size written at header[16:20]
FmtChunkSize == 16
\* the PCM format tag written at header[20:22]
PcmFormatTag == 1
\* width of a Go int on the 64-bit targets, in bytes
IntBytes == 8
StatusOK == 200
StatusBadRequest == 400
StatusInternalServerError == 500

(***************************************************************************)
(* Fixed-width integers.                                                   *)
(***************************************************************************)
RECURSIVE Digits(_, _)
\* the k low base-256 digits of the natural n, least significant first
Digits(n, k) == IF k = 0 THEN << >> ELSE <<n % 256>> \o Digits(n \div 256, k - 1)

\* a small natural as a Go int
ToInt(n) == Digits(n, IntBytes)

RECURSIVE AddDigits(_, _, _)
\* digit-wise sum of two equally long digit sequences; the last carry is dropped
AddDigits(a, b, carry) ==
    IF a = << >> THEN << >>
    ELSE LET s == Head(a) + Head(b) + carry
         IN  <<s % 256>> \o AddDigits(Tail(a), Tail(b), s \div 256)

\* a + b on Go ints (wraps at 2^64)
AddInt(a, b) == AddDigits(a, b, 0)

RECURSIVE SubDigits(_, _, _)
\* digit-wise difference of two equally long digit sequences; the last borrow is dropped
SubDigits(a, b, borrow) ==
    IF a = << >> THEN << >>
    ELSE LET d == Head(a) - Head(b) - borrow
         IN  <<d % 256>> \o SubDigits(Tail(a), Tail(b), IF d < 0 THEN 1 ELSE 0)

\* a - b on Go ints
SubInt(a, b) == SubDigits(a, b, 0)

RECURSIVE LessDigits(_, _)
\* a < b, for equally long digit sequences read as unsigned numbers
LessDigits(a, b) ==
    IF a = << >> THEN FALSE
    ELSE LET n == Len(a)
         IN  IF a[n] # b[n] THEN a[n] < b[n]
             ELSE LessDigits(SubSeq(a, 1, n - 1), SubSeq(b, 1, n - 1))

\* the conversion uint32(x) of a Go int: the low four bytes
uint32(x) == SubSeq(x, 1, 4)

\* the conversion uint16(x) of a Go int: the low two bytes
uint16(x) == SubSeq(x, 1, 2)

\* an unsigned value of any width widened back to a Go int
Widen(v) == v \o [i \in 1..(IntBytes - Len(v)) |-> 0]

\* the natural a digit sequence stands for (for values below 2^31 only)
RECURSIVE Value(_)
Value(v) == IF v = << >> THEN 0 ELSE Head(v) + 256 * Value(Tail(v))

(***************************************************************************)
(* encoding/binary and byte slices.                                        *)
(***************************************************************************)
\* binary.LittleEndian.PutUint32(b, v): b[0] = byte(v), b[1] = byte(v>>8), ...
PutUint32(v) == <<v[1], v[2], v[3], v[4]>>

\* binary.LittleEndian.PutUint16(b, v)
PutUint16(v) == <<v[1], v[2]>>

\* the ASCII code of the characters the header tags use
Ascii(c) ==
    CASE c = "R" -> 82 [] c = "I" -> 73 [] c = "F" -> 70
      [] c = "W" -> 87 [] c = "A" -> 65 [] c = "V" -> 86 [] c = "E" -> 69
      [] c = "f" -> 102 [] c = "m" -> 109 [] c = "t" -> 116 [] c = " " -> 32
      [] c = "d" -> 100 [] c = "a" -> 97

\* []byte("...") of a tag given as its characters
TagBytes(chars) == [i \in 1..Len(chars) |-> Ascii(chars[i])]

\* the element of a one-element set; {f(x) : x \in {e}} is f(e) with e
\* evaluated once, wherever the expression is evaluated
Only(S) == CHOOSE x \in S : TRUE

\* copy(dst[lo:lo+len(src)], src) and PutUintNN(dst[lo:...], v); lo is 0-based
PutAt(dst, lo, src) ==
    Only({[i \in 1..Len(d) |-> IF i > lo /\ i <= lo + Len(s) THEN s[i - lo] ELSE d[i]] :
            d \in {dst}, s \in {src}})

(***************************************************************************)
(* createWAVHeader                                                         *)
(***************************************************************************)
\* a plausible slip: the two size fields written in each other's place
createWAVHeaderSwappedSizes(dataLength) ==
    LET byteRate == (sampleRate * numChannels * bitsPerSample) \div 8
        blockAlign == (numChannels * bitsPerSample) \div 8
        h0  == [i \in 1..HeaderLen |-> 0]
        h1  == PutAt(h0, 0, TagBytes(<<"R", "I", "F", "F">>))
        h2  == PutAt(h1, 4, PutUint32(uint32(dataLength)))
        h3  == PutAt(h2, 8, TagBytes(<<"W", "A", "V", "E">>))
        h4  == PutAt(h3, 12, TagBytes(<<"f", "m", "t", " ">>))
        h5  == PutAt(h4, 16, PutUint32(uint32(ToInt(FmtChunkSize))))
        h6  == PutAt(h5, 20, PutUint16(uint16(ToInt(PcmFormatTag))))
        h7  == PutAt(h6, 22, PutUint16(uint16(ToInt(numChannels))))
        h8  == PutAt(h7, 24, PutUint32(uint32(ToInt(sampleRate))))
        h9  == PutAt(h8, 28, PutUint32(uint32(ToInt(byteRate))))
        h10 == PutAt(h9, 32, PutUint16(uint16(ToInt(blockAlign))))
        h11 == PutAt(h10, 34, PutUint16(uint16(ToInt(bitsPerSample))))
        h12 == PutAt(h11, 36, TagBytes(<<"d", "a", "t", "a">>))
        h13 == PutAt(h12, 40, PutUint32(uint32(AddInt(ToInt(RiffOverhead), dataLength))))
    IN  h13

\* a plausible slip: a size that does not fit in 32 bits is stored as 2^32 - 1
\* instead of being truncated
createWAVHeaderSaturating(dataLength) ==
    LET sat32(x) == IF SubSeq(x, 5, IntBytes) = <<0, 0, 0, 0>> THEN uint32(x)
                    ELSE <<255, 255, 255, 255>>
        byteRate == (sampleRate * numChannels * bitsPerSample) \div 8
        blockAlign == (numChannels * bitsPerSample) \div 8
        h0  == [i \in 1..HeaderLen |-> 0]
        h1  == PutAt(h0, 0, TagBytes(<<"R", "I", "F", "F">>))
        h2  == PutAt(h1, 4, PutUint32(sat32(AddInt(ToInt(RiffOverhead), dataLength))))
        h3  == PutAt(h2, 8, TagBytes(<<"W", "A", "V", "E">>))
        h4  == PutAt(h3, 12, TagBytes(<<"f", "m", "t", " ">>))
        h5  == PutAt(h4, 16, PutUint32(uint32(ToInt(FmtChunkSize))))
        h6  == PutAt(h5, 20, PutUint16(uint16(ToInt(PcmFormatTag))))
        h7  == PutAt(h6, 22, PutUint16(uint16(ToInt(numChannels))))
        h8  == PutAt(h7, 24, PutUint32(uint32(ToInt(sampleRate))))
        h9  == PutAt(h8, 28, PutUint32(uint32(ToInt(byteRate))))
        h10 == PutAt(h9, 32, PutUint16(uint16(ToInt(blockAlign))))
        h11 == PutAt(h10, 34, PutUint16(uint16(ToInt(bitsPerSample))))
        h12 == PutAt(h11, 36, TagBytes(<<"d", "a", "t", "a">>))
        h13 == PutAt(h12, 40, PutUint32(sat32(dataLength)))
    IN  h13

\* createWAVHeader(dataLength int) []byte, dataLength a Go int
createWAVHeader(dataLength) ==
    LET byteRate == (sampleRate * numChannels * bitsPerSample) \div 8
        blockAlign == (numChannels * bitsPerSample) \div 8
        h0  == [i \in 1..HeaderLen |-> 0]
        h1  == PutAt(h0, 0, TagBytes(<<"R", "I", "F", "F">>))
        h2  == PutAt(h1, 4, PutUint32(uint32(AddInt(ToInt(RiffOverhead), dataLength))))
        h3  == PutAt(h2, 8, TagBytes(<<"W", "A", "V", "E">>))
        h4  == PutAt(h3, 12, TagBytes(<<"f", "m", "t", " ">>))
        h5  == PutAt(h4, 16, PutUint32(uint32(ToInt(FmtChunkSize))))
        h6  == PutAt(h5, 20, PutUint16(uint16(ToInt(PcmFormatTag))))
        h7  == PutAt(h6, 22, PutUint16(uint16(ToInt(numChannels))))
        h8  == PutAt(h7, 24, PutUint32(uint32(ToInt(sampleRate))))
        h9  == PutAt(h8, 28, PutUint32(uint32(ToInt(byteRate))))
        h10 == PutAt(h9, 32, PutUint16(uint16(ToInt(blockAlign))))
        h11 == PutAt(h10, 34, PutUint16(uint16(ToInt(bitsPerSample))))
        h12 == PutAt(h11, 36, TagBytes(<<"d", "a", "t", "a">>))
        h13 == PutAt(h12, 40, PutUint32(uint32(dataLength)))
    IN  h13

(***************************************************************************)
(* fmt.Sprintf and path/filepath.                                          *)
(***************************************************************************)
DecimalDigit(d) == <<"0", "1", "2", "3", "4", "5", "6", "7", "8", "9">>[d + 1]

RECURSIVE Decimal(_)
\* %d of a natural
Decimal(n) == IF n < 10 THEN <<DecimalDigit(n)>> ELSE Decimal(n \div 10) \o <<DecimalDigit(n % 10)>>

RECURSIVE ZeroPad(_, _)
ZeroPad(s, width) == IF Len(s) >= width THEN s ELSE ZeroPad(<<"0">> \o s, width)

\* %02d and %04d of a natural: zero padded to at least width characters
FormatD(n, width) == ZeroPad(Decimal(n), width)

RECURSIVE SplitPath(_, _)
\* the "/"-separated elements of a path; cur is the element being read
SplitPath(p, cur) ==
    IF p = << >> THEN <<cur>>
    ELSE IF Head(p) = "/" THEN <<cur>> \o Only({SplitPath(rest, << >>) : rest \in {Tail(p)}})
    ELSE Only({SplitPath(rest, c) : rest \in {Tail(p)}, c \in {Append(cur, Head(p))}})

RECURSIVE CleanElems(_, _, _)
\* filepath.Clean on the elements: drop empty and ".", resolve ".."
CleanElems(elems, out, rooted) ==
    IF elems = << >> THEN out
    ELSE LET e == Head(elems)
         IN  IF e = << >> \/ e = <<".">> THEN CleanElems(Tail(elems), out, rooted)
             ELSE IF e = <<".", ".">> THEN
                 IF out # << >> /\ out[Len(out)] # <<".", ".">>
                 THEN CleanElems(Tail(elems), SubSeq(out, 1, Len(out) - 1), rooted)
                 ELSE IF rooted THEN CleanElems(Tail(elems), out, rooted)
                 ELSE CleanElems(Tail(elems), Append(out, e), rooted)
             ELSE CleanElems(Tail(elems), Append(out, e), rooted)

RECURSIVE JoinElems(_)
JoinElems(elems) ==
    IF elems = << >> THEN << >>
    ELSE IF Len(elems) = 1 THEN elems[1]
    ELSE elems[1] \o <<"/">> \o JoinElems(Tail(elems))

\* filepath.Clean
Clean(p) ==
    LET rooted == p # << >> /\ p[1] = "/"
        body == Only({JoinElems(cleaned) :
                        cleaned \in {CleanElems(elems, << >>, rooted) :
                                        elems \in {SplitPath(q, << >>) : q \in {p}}}})
    IN  IF rooted THEN <<"/">> \o body
        ELSE IF body = << >> THEN <<".">> ELSE body

\* filepath.Join(a, b): empty elements are ignored, the result is cleaned
Join(a, b) ==
    IF a = << >> /\ b = << >> THEN << >>
    ELSE IF a = << >> THEN Clean(b)
    ELSE IF b = << >> THEN Clean(a)
    ELSE Clean(a \o <<"/">> \o b)

(***************************************************************************)
(* The process environment.                                                *)
(***************************************************************************)
\* the wall clock when the run starts; the clock of the model counts the
\* seconds elapsed since then
StartTime == [Day |-> 3, Month |-> 11, Year |-> 2026, Hour |-> 9, Minute |-> 59, Second |-> 59]

\* time.Now() after t elapsed seconds (the bounds keep t within the day)
TimeAt(t) ==
    LET s == StartTime.Second + t
        m == StartTime.Minute + (s \div 60)
        h == StartTime.Hour + (m \div 60)
    IN  [StartTime EXCEPT !.Second = s % 60, !.Minute = m % 60, !.Hour = h]

\* os.TempDir()
TempDir == <<"/", "t", "m", "p">>

\* the values AUDIO_STORAGE_DIR takes: unset, or a directory
StorageDirEnvs == {<< >>, <<"/", "d", "/">>}

\* the values of the flags -agfs-api-url and -agfs-upload-path
ApiUrls == {"", "http://agfs"}
UploadPaths == {<< >>, <<"/", "u", "p", "/">>}

\* the in-flight requests (one handler goroutine each)
Reqs == {1, 2}

\* the bodies request r may carry; the bytes tell the requests apart
Bodies(r) == {[i \in 1..n |-> 16 * r + i] : n \in 0..MaxBodyLen}

NoClient == [url |-> ""]
NoName == << >>

VARIABLES
    mainPc,          \* "start" before main has run, then "serving"
    agfsClient,      \* the package variable agfsClient (NoClient is nil)
    agfsUploadPath,  \* the package variable agfsUploadPath
    storageDirEnv,   \* the environment variable AUDIO_STORAGE_DIR
    now,             \* seconds elapsed on the wall clock
    fs,              \* the files of the local file system: path -> bytes
    dirs,            \* the directories MkdirAll has created
    remote,          \* the files of the AGFS backend: path -> bytes
    req,             \* per request: handler position, locals, response
    faultsLeft,      \* I/O failures the run may still see
    wav              \* the encoder exercised alone (WAV specification)

vars == <<mainPc, agfsClient, agfsUploadPath, storageDirEnv, now, fs, dirs, remote, req, faultsLeft, wav>>

(***************************************************************************)
(* Files.                                                                  *)
(***************************************************************************)
Exists(files, path) == path \in DOMAIN files

\* the file at path replaced by (or created with) content
PutFile(files, path, content) ==
    Only({[q \in (DOMAIN f) \cup {p} |-> IF q = p THEN c ELSE f[q]] :
            f \in {files}, p \in {path}, c \in {content}})

\* write(2) of data at byte offset off: bytes past the old end that the write
\* skips read as zero
WriteAt(content, off, data) ==
    Only({IF d = << >> THEN c
          ELSE [i \in 1..(IF Len(c) > off + Len(d) THEN Len(c) ELSE off + Len(d)) |->
                  IF i > off /\ i <= off + Len(d) THEN d[i - off]
                  ELSE IF i <= Len(c) THEN c[i] ELSE 0] :
            c \in {content}, d \in {data}})

\* read(2) from byte offset off to the end of the file
ReadFrom(content, off) == SubSeq(content, off + 1, Len(content))

\* how many bytes of an n-byte write may have reached the file when it fails
ShortCounts(n) == {k \in {0, n - 1} : k >= 0 /\ k < n}

(***************************************************************************)
(* Locals of handlePostAudio.                                              *)
(***************************************************************************)
\* filename := fmt.Sprintf("%02d_%02d_%04d_%02d_%02d_%02d.wav", ...)
FileName(t) ==
    FormatD(t.Day, 2) \o <<"_">> \o FormatD(t.Month, 2) \o <<"_">> \o FormatD(t.Year, 4) \o <<"_">>
    \o FormatD(t.Hour, 2) \o <<"_">> \o FormatD(t.Minute, 2) \o <<"_">> \o FormatD(t.Second, 2)
    \o <<".", "w", "a", "v">>

\* a plausible slip: one fixed temp file name for every request
TempFilePathFixed(filename) == Join(TempDir, <<"a", "u", "d", "i", "o", ".", "w", "a", "v">>)

\* tempFilePath := filepath.Join(os.TempDir(), filename)
TempFilePath(filename) == Join(TempDir, filename)

\* storageDir := os.Getenv("AUDIO_STORAGE_DIR"), "./audio_files" when empty
StorageDir ==
    IF storageDirEnv = << >>
    THEN <<".", "/", "a", "u", "d", "i", "o", "_", "f", "i", "l", "e", "s">>
    ELSE storageDirEnv

\* a plausible slip: the destination joined to the temp directory
DestPathInTempDir(filename) == Join(TempDir, filename)

\* destPath := filepath.Join(storageDir, fileName)
DestPath(filename) == Join(StorageDir, filename)

\* a plausible slip: the upload path prefix is left out
FullPathWithoutPrefix(filename) == filename

\* fullPath of uploadToAGFS
FullPath(filename) ==
    IF agfsUploadPath # << >> THEN Join(agfsUploadPath, filename) ELSE filename

\* header := createWAVHeader(len(body))
Header(body) == createWAVHeader(ToInt(Len(body)))

\* one call of the handler: the operation and whether it returned without error
Call(op, ok) == [op |-> op, ok |-> ok]

IdleReq ==
    [pc |-> "idle", body |-> << >>, filename |-> NoName, tempOff |-> 0, fileData |-> << >>,
     srcOff |-> 0, dstOff |-> 0, err |-> "", status |-> 0, respBody |-> "", calls |-> << >>]

\* a request with its response written: w.WriteHeader/http.Error and return
Respond(rec, op, ok, status, text) ==
    [rec EXCEPT !.pc = "done", !.status = status, !.respBody = text,
                !.calls = Append(@, Call(op, ok))]

\* a request moved on to the next statement
Goto(rec, op, ok, pc) == [rec EXCEPT !.pc = pc, !.calls = Append(@, Call(op, ok))]

CanFail == faultsLeft > 0

(***************************************************************************)
(* main                                                                    *)
(***************************************************************************)
\* main up to http.ListenAndServe, with the flags -agfs-api-url, -agfs-upload-path
Main(agfsAPIURL, agfsPath) ==
    /\ mainPc = "start"
    /\ mainPc' = "serving"
    /\ IF agfsAPIURL # ""
       THEN /\ agfsClient' = [url |-> agfsAPIURL]
            /\ agfsUploadPath' = agfsPath
       ELSE UNCHANGED <<agfsClient, agfsUploadPath>>
    /\ UNCHANGED <<storageDirEnv, now, fs, dirs, remote, req, faultsLeft, wav>>

\* the wall clock advances
Tick ==
    /\ now < MaxTicks
    /\ now' = now + 1
    /\ UNCHANGED <<mainPc, agfsClient, agfsUploadPath, storageDirEnv, fs, dirs, remote, req, faultsLeft, wav>>

(***************************************************************************)
(* handlePostAudio, statement by statement.                                *)
(***************************************************************************)
\* a plausible slip: the upload is tried whether or not a client is configured
RouteAlwaysRemote == "readFile"

\* the statement after the temp file is written: if agfsClient != nil
Route == IF agfsClient # NoClient THEN "readFile" ELSE "mkdirAll"

\* a plausible slip: the local copy is made after a successful upload too
AfterUploadAlwaysLocal(err) == "mkdirAll"

\* a plausible slip: a failed upload is not followed by the local fallback
AfterUploadNoFallback(err) == "done"

\* a plausible slip: a failed upload is tried again
AfterUploadRetry(err) == IF err THEN "readFile" ELSE "done"

\* the statement after uploadToAGFS returned err
AfterUpload(err) == IF err THEN "mkdirAll" ELSE "done"

\* a plausible slip: one error text for both calls of saveFileLocally
SaveFailedTextOfFallback == "Failed to save file"

\* the text of http.Error when saveFileLocally failed
SaveFailedText ==
    IF agfsClient # NoClient THEN "Failed to save file" ELSE "Failed to save file to local storage"

\* a plausible slip: no return after the error response
ReadFailedGoesOn(rec) == Goto(rec, "ReadAll", FALSE, "createTemp")

\* http.Error and return after io.ReadAll failed
ReadFailed(rec) == Respond(rec, "ReadAll", FALSE, StatusBadRequest, "Failed to read request body")

\* a plausible slip: the handler holds a process-wide lock from its first
\* statement to its response, so that requests are handled one at a time
ReadBodySerialized(r) ==
    /\ mainPc = "serving"
    /\ req[r].pc = "idle"
    /\ \A q \in Reqs \ {r} : req[q].pc \in {"idle", "done"}
    /\ \/ /\ \E b \in Bodies(r) :
                req' = [req EXCEPT ![r] = Goto([@ EXCEPT !.body = b, !.filename = FileName(TimeAt(now))],
                                               "ReadAll", TRUE, "createTemp")]
          /\ UNCHANGED faultsLeft
       \/ /\ CanFail
          /\ faultsLeft' = faultsLeft - 1
          /\ req' = [req EXCEPT ![r] = ReadFailed(@)]
    /\ UNCHANGED <<mainPc, agfsClient, agfsUploadPath, storageDirEnv, now, fs, dirs, remote, wav>>

\* io.ReadAll(r.Body), then time.Now() and the file name
ReadBody(r) ==
    /\ mainPc = "serving"
    /\ req[r].pc = "idle"
    /\ \/ /\ \E b \in Bodies(r) :
                req' = [req EXCEPT ![r] = Goto([@ EXCEPT !.body = b, !.filename = FileName(TimeAt(now))],
                                               "ReadAll", TRUE, "createTemp")]
          /\ UNCHANGED faultsLeft
       \/ /\ CanFail
          /\ faultsLeft' = faultsLeft - 1
          /\ req' = [req EXCEPT ![r] = ReadFailed(@)]
    /\ UNCHANGED <<mainPc, agfsClient, agfsUploadPath, storageDirEnv, now, fs, dirs, remote, wav>>

\* tempFile, err := os.Create(tempFilePath)
CreateTemp(r) ==
    /\ req[r].pc = "createTemp"
    /\ \/ /\ fs' = PutFile(fs, TempFilePath(req[r].filename), << >>)
          /\ req' = [req EXCEPT ![r] = Goto([@ EXCEPT !.tempOff = 0], "CreateTemp", TRUE, "writeHeader")]
          /\ UNCHANGED faultsLeft
       \/ /\ CanFail
          /\ faultsLeft' = faultsLeft - 1
          /\ req' = [req EXCEPT ![r] = Respond(@, "CreateTemp", FALSE, StatusInternalServerError,
                                               "Failed to create temp file")]
          /\ UNCHANGED fs
    /\ UNCHANGED <<mainPc, agfsClient, agfsUploadPath, storageDirEnv, now, dirs, remote, wav>>

\* tempFile.Write(data), its result ignored: n bytes reach the file
TempWrite(r, op, data, next) ==
    LET path == TempFilePath(req[r].filename)
        put(n, ok) ==
            /\ fs' = PutFile(fs, path, WriteAt(fs[path], req[r].tempOff, SubSeq(data, 1, n)))
            /\ req' = [req EXCEPT ![r] = Goto([@ EXCEPT !.tempOff = @ + n], op, ok, next)]
    IN  \/ /\ put(Len(data), TRUE)
           /\ UNCHANGED faultsLeft
        \/ /\ CanFail
           /\ faultsLeft' = faultsLeft - 1
           /\ \E n \in ShortCounts(Len(data)) : put(n, FALSE)

\* tempFile.Write(header)
WriteHeader(r) ==
    /\ req[r].pc = "writeHeader"
    /\ TempWrite(r, "WriteHeader", Header(req[r].body), "writeBody")
    /\ UNCHANGED <<mainPc, agfsClient, agfsUploadPath, storageDirEnv, now, dirs, remote, wav>>

\* tempFile.Write(body), then the branch on agfsClient
WriteBody(r) ==
    /\ req[r].pc = "writeBody"
    /\ TempWrite(r, "WriteBody", req[r].body, Route)
    /\ UNCHANGED <<mainPc, agfsClient, agfsUploadPath, storageDirEnv, now, dirs, remote, wav>>

\* w.WriteHeader(http.StatusOK) and the confirmation text, after the call op
RespondOK(rec, op, ok) == Respond(rec, op, ok, StatusOK, "Audio bytes received and saved as")

\* a plausible slip: the error of saveFileLocally is logged and the handler
\* goes on to the success response
RespondSaveFailedGoesOn(rec, op) == RespondOK(rec, op, FALSE)

\* a plausible slip: every failing step of saveFileLocally returns the same error
SaveErrorGeneric(op) == "failed to save file"

\* the error saveFileLocally returns when its step op fails
SaveError(op) ==
    CASE op = "MkdirAll" -> "failed to create storage directory"
      [] op = "Open" -> "failed to open source file"
      [] op = "CreateDest" -> "failed to create destination file"
      [] op = "Copy" -> "failed to copy file"

\* the error uploadToAGFS returns when its step op fails
UploadError(op) ==
    CASE op = "ClientCheck" -> "AGFS client not initialized"
      [] op = "ReadFile" -> "failed to read file"
      [] op = "AgfsWrite" -> "failed to upload to AGFS"

\* err = saveFileLocally(...) returned an error: http.Error and return
RespondSaveFailed(rec, op) ==
    Respond([rec EXCEPT !.err = SaveError(op)], op, FALSE, StatusInternalServerError, SaveFailedText)

\* the handler after uploadToAGFS returned: respond, or fall back to local storage
Uploaded(rec, op, err) ==
    LET returned == [rec EXCEPT !.err = IF err THEN UploadError(op) ELSE ""]
    IN  IF AfterUpload(err) = "done"
        THEN RespondOK(returned, op, ~err)
        ELSE Goto(returned, op, ~err, AfterUpload(err))

\* uploadToAGFS up to os.ReadFile(filePath)
ReadFile(r) ==
    /\ req[r].pc = "readFile"
    /\ IF agfsClient = NoClient
       THEN /\ req' = [req EXCEPT ![r] = Uploaded(@, "ClientCheck", TRUE)]
            /\ UNCHANGED faultsLeft
       ELSE \/ /\ req' = [req EXCEPT ![r] =
                        Goto([@ EXCEPT !.fileData = fs[TempFilePath(req[r].filename)]],
                             "ReadFile", TRUE, "agfsWrite")]
               /\ UNCHANGED faultsLeft
            \/ /\ CanFail
               /\ faultsLeft' = faultsLeft - 1
               /\ req' = [req EXCEPT ![r] = Uploaded(@, "ReadFile", TRUE)]
    /\ UNCHANGED <<mainPc, agfsClient, agfsUploadPath, storageDirEnv, now, fs, dirs, remote, wav>>

\* a plausible slip: fullPath is assigned to the package variable instead of
\* a local, so that an upload rewrites the configured prefix
AgfsWriteStoresFullPath(r) ==
    /\ req[r].pc = "agfsWrite"
    /\ agfsUploadPath' = FullPath(req[r].filename)
    /\ \/ /\ remote' = PutFile(remote, FullPath(req[r].filename), req[r].fileData)
          /\ req' = [req EXCEPT ![r] = Uploaded(@, "AgfsWrite", FALSE)]
          /\ UNCHANGED faultsLeft
       \/ /\ CanFail
          /\ faultsLeft' = faultsLeft - 1
          /\ req' = [req EXCEPT ![r] = Uploaded(@, "AgfsWrite", TRUE)]
          /\ UNCHANGED remote
    /\ UNCHANGED <<mainPc, agfsClient, storageDirEnv, now, fs, dirs, wav>>

\* agfsClient.Write(fullPath, fileData) and the return of uploadToAGFS
AgfsWrite(r) ==
    /\ req[r].pc = "agfsWrite"
    /\ \/ /\ remote' = PutFile(remote, FullPath(req[r].filename), req[r].fileData)
          /\ req' = [req EXCEPT ![r] = Uploaded(@, "AgfsWrite", FALSE)]
          /\ UNCHANGED faultsLeft
       \/ /\ CanFail
          /\ faultsLeft' = faultsLeft - 1
          /\ req' = [req EXCEPT ![r] = Uploaded(@, "AgfsWrite", TRUE)]
          /\ UNCHANGED remote
    /\ UNCHANGED <<mainPc, agfsClient, agfsUploadPath, storageDirEnv, now, fs, dirs, wav>>

(***************************************************************************)
(* saveFileLocally, statement by statement.                                *)
(***************************************************************************)
\* os.MkdirAll(storageDir, 0755)
MkdirAll(r) ==
    /\ req[r].pc = "mkdirAll"
    /\ \/ /\ dirs' = dirs \cup {Clean(StorageDir)}
          /\ req' = [req EXCEPT ![r] = Goto(@, "MkdirAll", TRUE, "open")]
          /\ UNCHANGED faultsLeft
       \/ /\ CanFail
          /\ faultsLeft' = faultsLeft - 1
          /\ req' = [req EXCEPT ![r] = RespondSaveFailed(@, "MkdirAll")]
          /\ UNCHANGED dirs
    /\ UNCHANGED <<mainPc, agfsClient, agfsUploadPath, storageDirEnv, now, fs, remote, wav>>

\* srcFile, err := os.Open(tempFilePath)
OpenSrc(r) ==
    /\ req[r].pc = "open"
    /\ \/ /\ Exists(fs, TempFilePath(req[r].filename))
          /\ req' = [req EXCEPT ![r] = Goto([@ EXCEPT !.srcOff = 0], "Open", TRUE, "createDest")]
          /\ UNCHANGED faultsLeft
       \/ /\ CanFail
          /\ faultsLeft' = faultsLeft - 1
          /\ req' = [req EXCEPT ![r] = RespondSaveFailed(@, "Open")]
    /\ UNCHANGED <<mainPc, agfsClient, agfsUploadPath, storageDirEnv, now, fs, dirs, remote, wav>>

\* destFile, err := os.Create(destPath)
CreateDest(r) ==
    /\ req[r].pc = "createDest"
    /\ \/ /\ Clean(StorageDir) \in dirs
          /\ fs' = PutFile(fs, DestPath(req[r].filename), << >>)
          /\ req' = [req EXCEPT ![r] = Goto([@ EXCEPT !.dstOff = 0], "CreateDest", TRUE, "copy")]
          /\ UNCHANGED faultsLeft
       \/ /\ CanFail
          /\ faultsLeft' = faultsLeft - 1
          /\ req' = [req EXCEPT ![r] = RespondSaveFailed(@, "CreateDest")]
          /\ UNCHANGED fs
    /\ UNCHANGED <<mainPc, agfsClient, agfsUploadPath, storageDirEnv, now, dirs, remote, wav>>

\* one round of io.Copy(destFile, srcFile): read what the source holds past
\* the read offset, write it to the destination; an empty read ends the copy
Copy(r) ==
    LET src == TempFilePath(req[r].filename)
        dst == DestPath(req[r].filename)
        chunk == ReadFrom(fs[src], req[r].srcOff)
    IN  /\ req[r].pc = "copy"
        /\ \/ /\ chunk = << >>
              /\ req' = [req EXCEPT ![r] = RespondOK([@ EXCEPT !.err = ""], "Copy", TRUE)]
              /\ UNCHANGED <<fs, faultsLeft>>
           \/ /\ chunk # << >>
              /\ fs' = PutFile(fs, dst, WriteAt(fs[dst], req[r].dstOff, chunk))
              /\ req' = [req EXCEPT ![r].srcOff = @ + Len(chunk), ![r].dstOff = @ + Len(chunk)]
              /\ UNCHANGED faultsLeft
           \/ /\ CanFail
              /\ faultsLeft' = faultsLeft - 1
              /\ \E n \in ShortCounts(Len(chunk)) \cup {0} :
                    fs' = PutFile(fs, dst, WriteAt(fs[dst], req[r].dstOff, SubSeq(chunk, 1, n)))
              /\ req' = [req EXCEPT ![r] = RespondSaveFailed(@, "Copy")]
        /\ UNCHANGED <<mainPc, agfsClient, agfsUploadPath, storageDirEnv, now, dirs, remote, wav>>

(***************************************************************************)
(* The server.                                                             *)
(***************************************************************************)
NoWav == [pc |-> "off"]

\* the process before main runs, with a budget of I/O failures
InitServer(budget) ==
    /\ mainPc = "start"
    /\ agfsClient = NoClient
    /\ agfsUploadPath = << >>
    /\ storageDirEnv \in StorageDirEnvs
    /\ now = 0
    /\ fs = << >>
    /\ dirs = {}
    /\ remote = << >>
    /\ req = [r \in Reqs |-> IdleReq]
    /\ faultsLeft = budget

\* no other request has arrived
Alone(r) == \A q \in Reqs \ {r} : req[q].pc = "idle"

Init == InitServer(MaxRaceFaults) /\ wav = NoWav

\* net/http: every request is handled in a goroutine of its own
Next ==
    \/ \E u \in ApiUrls, p \in UploadPaths : Main(u, p)
    \/ Tick
    \/ \E r \in Reqs :
        \/ ReadBody(r)
        \/ CreateTemp(r)
        \/ WriteHeader(r)
        \/ WriteBody(r)
        \/ ReadFile(r)
        \/ AgfsWrite(r)
        \/ MkdirAll(r)
        \/ OpenSrc(r)
        \/ CreateDest(r)
        \/ Copy(r)

Spec == Init /\ [][Next]_vars

InitSingle == InitServer(MaxFaults) /\ wav = NoWav

\* the same server when one request is all it receives
NextSingle ==
    \/ \E u \in ApiUrls, p \in UploadPaths : Main(u, p)
    \/ Tick
    \/ \E r \in Reqs :
        \/ Alone(r) /\ ReadBody(r)
        \/ CreateTemp(r)
        \/ WriteHeader(r)
        \/ WriteBody(r)
        \/ ReadFile(r)
        \/ AgfsWrite(r)
        \/ MkdirAll(r)
        \/ OpenSrc(r)
        \/ CreateDest(r)
        \/ Copy(r)

SpecSingle == InitSingle /\ [][NextSingle]_vars

(***************************************************************************)
(* Two concurrent requests whose local I/O calls all return without error, *)
(* and the same under the scheduling the Go runtime gives: main runs to    *)
(* ListenAndServe, every request is dispatched, and a goroutine that is at *)
(* a local statement (one that does not wait for the remote backend)       *)
(* eventually executes it.  agfsClient.Write waits for the network without *)
(* a timeout: nothing makes it return.                                     *)
(***************************************************************************)
InitPair == InitServer(0) /\ wav = NoWav

SpecPair == InitPair /\ [][Next]_vars

\* the steps of the handler of r that do not wait for the remote backend
LocalSteps(r) ==
    \/ ReadBody(r)
    \/ CreateTemp(r)
    \/ WriteHeader(r)
    \/ WriteBody(r)
    \/ ReadFile(r)
    \/ MkdirAll(r)
    \/ OpenSrc(r)
    \/ CreateDest(r)
    \/ Copy(r)

\* the pair with AUDIO_STORAGE_DIR unset
InitFair == InitPair /\ storageDirEnv = << >>

SpecFair ==
    /\ InitFair
    /\ [][Next]_vars
    /\ WF_vars(\E u \in ApiUrls, p \in UploadPaths : Main(u, p))
    /\ \A r \in Reqs : WF_vars(LocalSteps(r))

(***************************************************************************)
(* The local-only program (the first main.go of the file, lines 1-152):    *)
(* its main and its handlePostAudio, statement by statement.  It has no    *)
(* remote target; createWAVHeader and saveFileLocally are, line for line,  *)
(* the ones of the remote-capable program, and so are the file name, the   *)
(* temp path and the storage directory.                                    *)
(***************************************************************************)
\* main up to http.ListenAndServe: there is nothing to configure
MainV1 ==
    /\ mainPc = "start"
    /\ mainPc' = "serving"
    /\ UNCHANGED <<agfsClient, agfsUploadPath, storageDirEnv, now, fs, dirs, remote, req, faultsLeft, wav>>

\* io.ReadAll(r.Body), then time.Now() and the file name
ReadBodyV1(r) ==
    /\ mainPc = "serving"
    /\ req[r].pc = "idle"
    /\ \/ /\ \E b \in Bodies(r) :
                req' = [req EXCEPT ![r] = Goto([@ EXCEPT !.body = b, !.filename = FileName(TimeAt(now))],
                                               "ReadAll", TRUE, "createTemp")]
          /\ UNCHANGED faultsLeft
       \/ /\ CanFail
          /\ faultsLeft' = faultsLeft - 1
          /\ req' = [req EXCEPT ![r] = Respond(@, "ReadAll", FALSE, StatusBadRequest,
                                               "Failed to read request body")]
    /\ UNCHANGED <<mainPc, agfsClient, agfsUploadPath, storageDirEnv, now, fs, dirs, remote, wav>>

\* tempFile, err := os.Create(tempFilePath)
CreateTempV1(r) ==
    /\ req[r].pc = "createTemp"
    /\ \/ /\ fs' = PutFile(fs, TempFilePath(req[r].filename), << >>)
          /\ req' = [req EXCEPT ![r] = Goto([@ EXCEPT !.tempOff = 0], "CreateTemp", TRUE, "writeHeader")]
          /\ UNCHANGED faultsLeft
       \/ /\ CanFail
          /\ faultsLeft' = faultsLeft - 1
          /\ req' = [req EXCEPT ![r] = Respond(@, "CreateTemp", FALSE, StatusInternalServerError,
                                               "Failed to create temp file")]
          /\ UNCHANGED fs
    /\ UNCHANGED <<mainPc, agfsClient, agfsUploadPath, storageDirEnv, now, dirs, remote, wav>>

\* tempFile.Write(header)
WriteHeaderV1(r) ==
    /\ req[r].pc = "writeHeader"
    /\ TempWrite(r, "WriteHeader", Header(req[r].body), "writeBody")
    /\ UNCHANGED <<mainPc, agfsClient, agfsUploadPath, storageDirEnv, now, dirs, remote, wav>>

\* tempFile.Write(body); saveFileLocally is the next call
WriteBodyV1(r) ==
    /\ req[r].pc = "writeBody"
    /\ TempWrite(r, "WriteBody", req[r].body, "mkdirAll")
    /\ UNCHANGED <<mainPc, agfsClient, agfsUploadPath, storageDirEnv, now, dirs, remote, wav>>

\* err = saveFileLocally(...) returned an error: http.Error and return
RespondSaveFailedV1(rec, op) ==
    Respond([rec EXCEPT !.err = SaveError(op)], op, FALSE, StatusInternalServerError,
            "Failed to save file to local storage")

\* os.MkdirAll(storageDir, 0755)
MkdirAllV1(r) ==
    /\ req[r].pc = "mkdirAll"
    /\ \/ /\ dirs' = dirs \cup {Clean(StorageDir)}
          /\ req' = [req EXCEPT ![r] = Goto(@, "MkdirAll", TRUE, "open")]
          /\ UNCHANGED faultsLeft
       \/ /\ CanFail
          /\ faultsLeft' = faultsLeft - 1
          /\ req' = [req EXCEPT ![r] = RespondSaveFailedV1(@, "MkdirAll")]
          /\ UNCHANGED dirs
    /\ UNCHANGED <<mainPc, agfsClient, agfsUploadPath, storageDirEnv, now, fs, remote, wav>>

\* srcFile, err := os.Open(tempFilePath)
OpenSrcV1(r) ==
    /\ req[r].pc = "open"
    /\ \/ /\ Exists(fs, TempFilePath(req[r].filename))
          /\ req' = [req EXCEPT ![r] = Goto([@ EXCEPT !.srcOff = 0], "Open", TRUE, "createDest")]
          /\ UNCHANGED faultsLeft
       \/ /\ CanFail
          /\ faultsLeft' = faultsLeft - 1
          /\ req' = [req EXCEPT ![r] = RespondSaveFailedV1(@, "Open")]
    /\ UNCHANGED <<mainPc, agfsClient, agfsUploadPath, storageDirEnv, now, fs, dirs, remote, wav>>

\* destFile, err := os.Create(destPath)
CreateDestV1(r) ==
    /\ req[r].pc = "createDest"
    /\ \/ /\ Clean(StorageDir) \in dirs
          /\ fs' = PutFile(fs, DestPath(req[r].filename), << >>)
          /\ req' = [req EXCEPT ![r] = Goto([@ EXCEPT !.dstOff = 0], "CreateDest", TRUE, "copy")]
          /\ UNCHANGED faultsLeft
       \/ /\ CanFail
          /\ faultsLeft' = faultsLeft - 1
          /\ req' = [req EXCEPT ![r] = RespondSaveFailedV1(@, "CreateDest")]
          /\ UNCHANGED fs
    /\ UNCHANGED <<mainPc, agfsClient, agfsUploadPath, storageDirEnv, now, dirs, remote, wav>>

\* one round of io.Copy(destFile, srcFile); after the last one the handler
\* writes the 200 response
CopyV1(r) ==
    LET src == TempFilePath(req[r].filename)
        dst == DestPath(req[r].filename)
        chunk == ReadFrom(fs[src], req[r].srcOff)
    IN  /\ req[r].pc = "copy"
        /\ \/ /\ chunk = << >>
              /\ req' = [req EXCEPT ![r] = Respond([@ EXCEPT !.err = ""], "Copy", TRUE, StatusOK,
                                                   "Audio bytes received and saved as")]
              /\ UNCHANGED <<fs, faultsLeft>>
           \/ /\ chunk # << >>
              /\ fs' = PutFile(fs, dst, WriteAt(fs[dst], req[r].dstOff, chunk))
              /\ req' = [req EXCEPT ![r].srcOff = @ + Len(chunk), ![r].dstOff = @ + Len(chunk)]
              /\ UNCHANGED faultsLeft
           \/ /\ CanFail
              /\ faultsLeft' = faultsLeft - 1
              /\ \E n \in ShortCounts(Len(chunk)) \cup {0} :
                    fs' = PutFile(fs, dst, WriteAt(fs[dst], req[r].dstOff, SubSeq(chunk, 1, n)))
              /\ req' = [req EXCEPT ![r] = RespondSaveFailedV1(@, "Copy")]
        /\ UNCHANGED <<mainPc, agfsClient, agfsUploadPath, storageDirEnv, now, dirs, remote, wav>>

\* a step of the local-only handler of r, r being the one request received
HandlerV1(r) ==
    \/ Alone(r) /\ ReadBodyV1(r)
    \/ CreateTempV1(r)
    \/ WriteHeaderV1(r)
    \/ WriteBodyV1(r)
    \/ MkdirAllV1(r)
    \/ OpenSrcV1(r)
    \/ CreateDestV1(r)
    \/ CopyV1(r)

\* a step of the remote-capable handler of r, r being the one request received
HandlerV2(r) ==
    \/ Alone(r) /\ ReadBody(r)
    \/ CreateTemp(r)
    \/ WriteHeader(r)
    \/ WriteBody(r)
    \/ ReadFile(r)
    \/ AgfsWrite(r)
    \/ MkdirAll(r)
    \/ OpenSrc(r)
    \/ CreateDest(r)
    \/ Copy(r)

\* the two programs side by side, each serving one request: from every
\* state, the steps of the remote-capable program and, where no remote
\* target is configured, the steps of the local-only program
NextBoth ==
    \/ \E u \in ApiUrls, p \in UploadPaths : Main(u, p)
    \/ MainV1
    \/ Tick
    \/ \E r \in Reqs : HandlerV2(r)
    \/ \E r \in Reqs : agfsClient = NoClient /\ HandlerV1(r)

SpecBoth == InitSingle /\ [][NextBoth]_vars

(***************************************************************************)
(* The encoder alone: createWAVHeader applied to the length of a payload   *)
(* and the two writes of the handler that put header and payload in a file.*)
(* A payload is its leading bytes (head) followed by a run of zero bytes   *)
(* whose count is a Go int, so that payloads of 4 GiB and more, which      *)
(* io.ReadAll can return, are inputs too.                                  *)
(***************************************************************************)
\* 2^32 as a Go int
TwoTo32 == <<0, 0, 0, 0, 1, 0, 0, 0>>

\* the byte values of the payloads
WavBytes == {0, 1, 255}

RECURSIVE SeqsUpTo(_, _)
\* the sequences over S of length at most n
SeqsUpTo(S, n) ==
    IF n = 0 THEN {<< >>}
    ELSE LET shorter == SeqsUpTo(S, n - 1)
         IN  shorter \cup {Append(q, x) : q \in shorter, x \in S}

\* the run lengths: none, one that carries into the second length byte, the
\* ones around 2^32 - 36, 2^32 - 1 and 2^32
WavRuns ==
    {ToInt(0), ToInt(255), SubInt(TwoTo32, ToInt(RiffOverhead + MaxBodyLen)),
     SubInt(TwoTo32, ToInt(1)), TwoTo32}

Payloads == [head : SeqsUpTo(WavBytes, MaxBodyLen), run : WavRuns]

\* len(body)
PayloadLen(p) == AddInt(ToInt(Len(p.head)), p.run)

InitWav ==
    /\ InitServer(0)
    /\ wav \in {[pc |-> "input", payload |-> p] : p \in Payloads}

\* header := createWAVHeader(len(body))
Encode ==
    /\ wav.pc = "input"
    /\ wav' = [pc |-> "encoded", payload |-> wav.payload,
               header |-> createWAVHeader(PayloadLen(wav.payload))]
    /\ UNCHANGED <<mainPc, agfsClient, agfsUploadPath, storageDirEnv, now, fs, dirs, remote, req, faultsLeft>>

\* tempFile.Write(header); tempFile.Write(body), both complete
WriteFile ==
    /\ wav.pc = "encoded"
    /\ wav' = [pc |-> "file", payload |-> wav.payload, header |-> wav.header,
               file |-> [head |-> wav.header \o wav.payload.head, run |-> wav.payload.run]]
    /\ UNCHANGED <<mainPc, agfsClient, agfsUploadPath, storageDirEnv, now, fs, dirs, remote, req, faultsLeft>>

NextWav == Encode \/ WriteFile

SpecWav == InitWav /\ [][NextWav]_vars

(***************************************************************************)
(* Reading a header and a WAV file back.                                   *)
(***************************************************************************)
\* the n bytes of h from the 0-based offset lo
Field(h, lo, n) == SubSeq(h, lo + 1, lo + n)

\* the header h decodes to the fixed format with the given RIFF and data sizes
DecodesTo(h, riffSize, dataSize) ==
    /\ Len(h) = 44
    /\ Field(h, 0, 4) = <<82, 73, 70, 70>>
    /\ Widen(Field(h, 4, 4)) = riffSize
    /\ Field(h, 8, 4) = <<87, 65, 86, 69>>
    /\ Field(h, 12, 4) = <<102, 109, 116, 32>>
    /\ Value(Field(h, 16, 4)) = 16
    /\ Value(Field(h, 20, 2)) = 1
    /\ Value(Field(h, 22, 2)) = 1
    /\ Value(Field(h, 24, 4)) = 16000
    /\ Value(Field(h, 28, 4)) = 32000
    /\ Value(Field(h, 32, 2)) = 2
    /\ Value(Field(h, 34, 2)) = 16
    /\ Field(h, 36, 4) = <<100, 97, 116, 97>>
    /\ Widen(Field(h, 40, 4)) = dataSize

\* a WAV reader: skip the 44-byte header, read 'data size' bytes of audio;
\* a file that holds fewer bytes than its header announces does not parse
ParseWAV(f) ==
    LET rest == SubSeq(f.head, 45, Len(f.head))
        size == Widen(Field(f.head, 40, 4))
        have == AddInt(ToInt(Len(rest)), f.run)
        none == [head |-> << >>, run |-> ToInt(0)]
    IN  IF Len(f.head) < 44 \/ LessDigits(have, size) THEN [ok |-> FALSE, audio |-> none]
        ELSE IF LessDigits(ToInt(Len(rest)), size)
        THEN [ok |-> TRUE, audio |-> [head |-> rest, run |-> SubInt(size, ToInt(Len(rest)))]]
        ELSE [ok |-> TRUE, audio |-> [head |-> SubSeq(rest, 1, Value(size)), run |-> ToInt(0)]]

Encoded == wav.pc \in {"encoded", "file"}

(***************************************************************************)
(* C1                                                                      *)
(***************************************************************************)
\* C1 as stated: for every non-negative length L, createWAVHeader(L) is 44
\* bytes that decode to 'RIFF', RIFF size L+36, 'WAVE', 'fmt ', 16, 1, 1,
\* 16000, 32000, 2, 16, 'data' and data size L.
C1_AllLengths ==
    Encoded =>
        DecodesTo(wav.header, AddInt(PayloadLen(wav.payload), ToInt(36)), PayloadLen(wav.payload))

\* C1, amended: the same for every length L with L+36 < 2^32.
C1_HeaderFields ==
    (Encoded /\ LessDigits(AddInt(PayloadLen(wav.payload), ToInt(36)), TwoTo32)) =>
        DecodesTo(wav.header, AddInt(PayloadLen(wav.payload), ToInt(36)), PayloadLen(wav.payload))

\* a header has been built for the largest such length, 2^32 - 37
C1_Witness ==
    /\ wav.pc = "encoded"
    /\ PayloadLen(wav.payload) = SubInt(TwoTo32, ToInt(37))
    /\ wav.payload.head # << >>

(***************************************************************************)
(* C10                                                                     *)
(***************************************************************************)
\* the file written for the payload parses back to the payload; the file of
\* the empty payload is the 44-byte header alone and parses to no audio bytes
RoundTrips ==
    /\ ParseWAV(wav.file) = [ok |-> TRUE, audio |-> wav.payload]
    /\ PayloadLen(wav.payload) = ToInt(0) =>
        /\ wav.file = [head |-> wav.header, run |-> ToInt(0)]
        /\ Len(wav.file.head) = 44
        /\ ParseWAV(wav.file).audio = [head |-> << >>, run |-> ToInt(0)]

\* C10 as stated: for every payload p, createWAVHeader(len(p)) ++ p parses
\* back to exactly p, and for the empty payload the file is the header alone.
C10_AllPayloads == wav.pc = "file" => RoundTrips

\* C10, amended: the same for every payload shorter than 2^32 bytes.
C10_RoundTrip == (wav.pc = "file" /\ LessDigits(PayloadLen(wav.payload), TwoTo32)) => RoundTrips

\* the file of the longest such payload, 2^32 - 1 bytes, has been written
C10_Witness ==
    /\ wav.pc = "file"
    /\ PayloadLen(wav.payload) = SubInt(TwoTo32, ToInt(1))
    /\ ParseWAV(wav.file).ok

(***************************************************************************)
(* What a request has done, read off its calls.                            *)
(***************************************************************************)
Done(r) == req[r].pc = "done"

\* r has called op
Called(r, op) == \E i \in DOMAIN req[r].calls : req[r].calls[i].op = op

\* r has called op and op returned without error
Succeeded(r, op) == \E i \in DOMAIN req[r].calls : req[r].calls[i] = Call(op, TRUE)

\* r has called op and op returned an error
Failed(r, op) == \E i \in DOMAIN req[r].calls : req[r].calls[i] = Call(op, FALSE)

RemoteConfigured == agfsClient # NoClient

\* the steps of uploadToAGFS and of saveFileLocally
UploadOps == {"ClientCheck", "ReadFile", "AgfsWrite"}
LocalOps == {"MkdirAll", "Open", "CreateDest", "Copy"}

\* uploadToAGFS was called; it returned nil; it returned an error
UploadCalled(r) == \E op \in UploadOps : Called(r, op)
UploadSucceeded(r) == Succeeded(r, "AgfsWrite")
UploadFailed(r) == \E op \in UploadOps : Failed(r, op)

\* saveFileLocally was called; it returned nil; it returned an error
LocalCalled(r) == \E op \in LocalOps : Called(r, op)
LocalSucceeded(r) == Succeeded(r, "Copy")
LocalFailed(r) == \E op \in LocalOps : Failed(r, op)

\* the request got past temp-file creation
PastTemp(r) == Succeeded(r, "CreateTemp")

\* the local storage directory holds a file under the name of r
Stored(r) == Exists(fs, DestPath(req[r].filename))

\* ... and the file is a copy of the temp file of r
StoredCopy(r) == Stored(r) /\ fs[DestPath(req[r].filename)] = fs[TempFilePath(req[r].filename)]

IsPrefix(a, b) == Len(a) <= Len(b) /\ SubSeq(b, 1, Len(a)) = a

(***************************************************************************)
(* C2                                                                      *)
(***************************************************************************)
\* C2: when a remote target is configured and the remote write succeeds,
\* local storage is never attempted for the request (no directory is
\* created, no file appears in the local storage directory) and the
\* response status is 200.
C2_RemoteSuccessSkipsLocal ==
    \A r \in Reqs :
        (RemoteConfigured /\ UploadSucceeded(r)) =>
            /\ ~LocalCalled(r)
            /\ dirs = {}
            /\ ~Stored(r)
            /\ Done(r)
            /\ req[r].status = 200

C2_Witness ==
    \E r \in Reqs :
        /\ RemoteConfigured /\ UploadSucceeded(r) /\ Done(r)
        /\ Exists(remote, FullPath(req[r].filename))

(***************************************************************************)
(* C3                                                                      *)
(***************************************************************************)
\* C3 as stated: when a remote target is configured and the remote write
\* fails, the local storage directory receives the file under the generated
\* filename and the response status is 200.
C3_FallbackAlwaysStores ==
    \A r \in Reqs :
        (RemoteConfigured /\ UploadFailed(r) /\ Done(r)) => (Stored(r) /\ req[r].status = 200)

\* C3, amended: when a remote target is configured and the remote write
\* fails, saveFileLocally is called; if it succeeds the local storage
\* directory holds a file under the generated filename (the request being
\* handled alone, a copy of its temp file) and the status is 200, and if it
\* fails the status is 500.
C3_FallbackStores ==
    \A r \in Reqs :
        (RemoteConfigured /\ UploadFailed(r) /\ Done(r)) =>
            /\ LocalCalled(r)
            /\ IF LocalSucceeded(r)
               THEN StoredCopy(r) /\ req[r].status = 200
               ELSE LocalFailed(r) /\ req[r].status = 500

C3_Witness ==
    \E r \in Reqs :
        /\ RemoteConfigured /\ Failed(r, "AgfsWrite") /\ Done(r)
        /\ LocalSucceeded(r) /\ req[r].status = 200
        /\ fs[DestPath(req[r].filename)] = Header(req[r].body) \o req[r].body

(***************************************************************************)
(* C4                                                                      *)
(***************************************************************************)
\* C4 as stated: when no remote target is configured, no remote write is
\* attempted, the local storage directory receives the file under the
\* generated filename, and the response status is 200.
C4_LocalAlwaysStores ==
    \A r \in Reqs :
        (~RemoteConfigured /\ PastTemp(r) /\ Done(r)) =>
            (~UploadCalled(r) /\ remote = << >> /\ Stored(r) /\ req[r].status = 200)

\* C4, amended: when no remote target is configured, no remote write is
\* attempted and saveFileLocally is called; if it succeeds the local storage
\* directory holds a file under the generated filename (the request being
\* handled alone, a copy of its temp file) and the status is 200, and if it
\* fails the status is 500.
C4_LocalStores ==
    \A r \in Reqs :
        (~RemoteConfigured /\ PastTemp(r) /\ Done(r)) =>
            /\ ~UploadCalled(r)
            /\ remote = << >>
            /\ LocalCalled(r)
            /\ IF LocalSucceeded(r)
               THEN StoredCopy(r) /\ req[r].status = 200
               ELSE LocalFailed(r) /\ req[r].status = 500

C4_Witness ==
    \E r \in Reqs :
        /\ ~RemoteConfigured /\ Done(r) /\ LocalSucceeded(r) /\ req[r].status = 200
        /\ req[r].body # << >>
        /\ fs[DestPath(req[r].filename)] = Header(req[r].body) \o req[r].body

(***************************************************************************)
(* C5                                                                      *)
(***************************************************************************)
\* C5: for a request that got past temp-file creation, the status is 500 if
\* and only if every applicable storage path failed (remote configured: the
\* remote write and the local fallback; not configured: the local write);
\* a remote-write failure alone never produces an error response.
C5_ErrorIffAllPathsFailed ==
    \A r \in Reqs :
        (PastTemp(r) /\ Done(r)) =>
            /\ req[r].status = 500 <=>
                  IF RemoteConfigured THEN UploadFailed(r) /\ LocalFailed(r) ELSE LocalFailed(r)
            /\ (UploadFailed(r) /\ ~LocalFailed(r)) => req[r].status = 200

C5_Witness ==
    \E r \in Reqs :
        /\ RemoteConfigured /\ PastTemp(r) /\ Done(r)
        /\ UploadFailed(r) /\ LocalFailed(r) /\ req[r].status = 500

(***************************************************************************)
(* C6                                                                      *)
(***************************************************************************)
\* C6 as stated: when no remote target is configured and any step of
\* saveFileLocally fails, the status is 500 and after the request no file
\* for it is observable in the local storage directory or in the remote
\* backend.
C6_FailureLeavesNoFile ==
    \A r \in Reqs :
        (~RemoteConfigured /\ LocalFailed(r) /\ Done(r)) =>
            (req[r].status = 500 /\ ~Stored(r) /\ remote = << >>)

\* C6, amended: ... the status is 500 and nothing is written to the remote
\* backend; the local storage directory holds no file for the request when
\* the failing step is the directory creation, the source open or the
\* destination create, and when the failing step is the copy it holds the
\* destination file the request created, with a prefix of the temp file.
C6_FailureLeavesAtMostPartialFile ==
    \A r \in Reqs :
        (~RemoteConfigured /\ LocalFailed(r) /\ Done(r)) =>
            /\ req[r].status = 500
            /\ remote = << >>
            /\ IF Failed(r, "Copy")
               THEN /\ Stored(r)
                    /\ IsPrefix(fs[DestPath(req[r].filename)], fs[TempFilePath(req[r].filename)])
               ELSE ~Stored(r)

C6_Witness ==
    \E r \in Reqs :
        /\ ~RemoteConfigured /\ Failed(r, "CreateDest") /\ Done(r)
        /\ req[r].status = 500 /\ ~Stored(r)

(***************************************************************************)
(* C9                                                                      *)
(***************************************************************************)
\* C9: if the request body cannot be read the response is 400, no temp file
\* is created and no storage backend is attempted; if the temp-file creation
\* fails the response is 500 and no storage backend is attempted.
C9_EarlyExits ==
    \A r \in Reqs :
        /\ Failed(r, "ReadAll") =>
            /\ Done(r) /\ req[r].status = 400
            /\ ~Called(r, "CreateTemp") /\ fs = << >>
            /\ ~UploadCalled(r) /\ ~LocalCalled(r) /\ remote = << >> /\ dirs = {}
        /\ Failed(r, "CreateTemp") =>
            /\ Done(r) /\ req[r].status = 500
            /\ ~UploadCalled(r) /\ ~LocalCalled(r) /\ remote = << >> /\ dirs = {}

C9_Witness ==
    \E r \in Reqs : Failed(r, "CreateTemp") /\ Done(r) /\ req[r].status = 500

(***************************************************************************)
(* C7                                                                      *)
(***************************************************************************)
\* the complete WAV file of request r
WavOf(r) == Header(req[r].body) \o req[r].body

\* every call r made returned without error
NoFailure(r) == \A i \in DOMAIN req[r].calls : req[r].calls[i].ok

\* C7: when two requests are handled concurrently and generate the same
\* filename, then after both complete the file at the destination path
\* (local or remote) is exactly the complete WAV file of one of the two
\* requests, never a mixture of bytes from both.  Stated for requests none
\* of whose calls failed.
C7_LastWriterWins ==
    \A r1, r2 \in Reqs :
        (/\ r1 # r2 /\ Done(r1) /\ Done(r2)
         /\ req[r1].filename = req[r2].filename
         /\ req[r1].status = 200 /\ req[r2].status = 200
         /\ NoFailure(r1) /\ NoFailure(r2)) =>
            /\ Stored(r1) => fs[DestPath(req[r1].filename)] \in {WavOf(r1), WavOf(r2)}
            /\ Exists(remote, FullPath(req[r1].filename)) =>
                  remote[FullPath(req[r1].filename)] \in {WavOf(r1), WavOf(r2)}

(***************************************************************************)
(* C8                                                                      *)
(***************************************************************************)
\* the bytes start with a 44-byte header whose data size is the number of
\* bytes that follow it and whose RIFF size is that number plus 36
SizesConsistent(bytes) ==
    /\ Len(bytes) >= 44
    /\ Widen(Field(bytes, 40, 4)) = ToInt(Len(bytes) - 44)
    /\ Widen(Field(bytes, 4, 4)) = ToInt(Len(bytes) - 44 + 36)

\* C8: every WAV file the system delivers to a destination (the local
\* storage file of a request whose local save succeeded, the bytes passed to
\* the remote write) starts with a 44-byte header whose data-size field
\* equals the number of payload bytes that follow and whose RIFF-size field
\* equals that number plus 36.
C8_WavFileInvariant ==
    /\ \A r \in Reqs :
          (Done(r) /\ LocalSucceeded(r)) => SizesConsistent(fs[DestPath(req[r].filename)])
    /\ \A path \in DOMAIN remote : SizesConsistent(remote[path])

(***************************************************************************)
(* C11                                                                     *)
(***************************************************************************)
\* C11: the remote-target configuration (agfsClient, agfsUploadPath) changes
\* only in the step of main that ends with the server serving, which happens
\* at most once; every step of handlePostAudio, uploadToAGFS and
\* saveFileLocally leaves both variables unchanged.
C11_ConfigReadOnly ==
    [][/\ <<agfsClient, agfsUploadPath>>' # <<agfsClient, agfsUploadPath>> =>
            (mainPc = "start" /\ mainPc' = "serving")
       /\ mainPc = "serving" =>
            (mainPc' = "serving" /\ UNCHANGED <<agfsClient, agfsUploadPath>>)
       /\ req' # req => UNCHANGED <<agfsClient, agfsUploadPath>>]_vars

\* a request went through uploadToAGFS and saveFileLocally under a configured
\* client and prefix
C11_Witness ==
    \E r \in Reqs :
        /\ RemoteConfigured /\ agfsUploadPath # << >>
        /\ Done(r) /\ Failed(r, "AgfsWrite") /\ LocalSucceeded(r)

(***************************************************************************)
(* C12                                                                     *)
(***************************************************************************)
\* the positions in the calls of r of the calls of an operation in ops
CallsOf(r, ops) == {i \in DOMAIN req[r].calls : req[r].calls[i].op \in ops}

\* C12: within one request uploadToAGFS runs at most once (each of its steps
\* is called at most once) and saveFileLocally runs at most once; a step of
\* saveFileLocally is called only when no remote target is configured or the
\* one call of uploadToAGFS returned an error; no step of uploadToAGFS is
\* called after a step of saveFileLocally.
C12_SingleAttempt ==
    \A r \in Reqs :
        /\ Cardinality(CallsOf(r, {"ClientCheck", "ReadFile"})) <= 1
        /\ Cardinality(CallsOf(r, {"AgfsWrite"})) <= 1
        /\ \A op \in LocalOps : Cardinality(CallsOf(r, {op})) <= 1
        /\ (LocalCalled(r) \/ req[r].pc \in {"mkdirAll", "open", "createDest", "copy"}) =>
              IF RemoteConfigured THEN UploadFailed(r) ELSE ~UploadCalled(r)
        /\ \A i \in CallsOf(r, UploadOps), j \in CallsOf(r, LocalOps) : i < j
        /\ req[r].pc \in {"readFile", "agfsWrite"} => ~LocalCalled(r) /\ ~UploadFailed(r)

\* a request whose remote write failed and whose local write then failed too:
\* it ended after one attempt of each
C12_Witness ==
    \E r \in Reqs :
        /\ RemoteConfigured /\ Done(r)
        /\ Failed(r, "AgfsWrite") /\ Failed(r, "Copy")
        /\ Cardinality(CallsOf(r, {"AgfsWrite"})) = 1
        /\ Cardinality(CallsOf(r, {"MkdirAll"})) = 1

(***************************************************************************)
(* C13                                                                     *)
(***************************************************************************)
RECURSIVE TrimSlashes(_)
\* the path p without its trailing separators
TrimSlashes(p) ==
    IF p # << >> /\ p[Len(p)] = "/" THEN TrimSlashes(SubSeq(p, 1, Len(p) - 1)) ELSE p

\* the name under the prefix: the prefix, one separator, the name
Under(prefix, name) == TrimSlashes(prefix) \o <<"/">> \o name

\* the path the remote write of r is to be called with
ExpectedRemotePath(r) ==
    IF agfsUploadPath # << >> THEN Under(agfsUploadPath, req[r].filename) ELSE req[r].filename

\* C13: when the remote write is called (the request is at the call of
\* agfsClient.Write or has made it), its path argument is the file name under
\* the upload path prefix if the prefix is non-empty, else exactly the file
\* name, and its data argument is the content read from the temp file, which
\* for a request handled alone is the content of the temp file; a successful
\* write leaves exactly that data at that path.
C13_RemoteWriteArguments ==
    \A r \in Reqs :
        (req[r].pc = "agfsWrite" \/ Called(r, "AgfsWrite")) =>
            /\ Succeeded(r, "ReadFile")
            /\ FullPath(req[r].filename) = ExpectedRemotePath(r)
            /\ req[r].fileData = fs[TempFilePath(req[r].filename)]
            /\ Len(req[r].fileData) = req[r].tempOff
            /\ IF Succeeded(r, "AgfsWrite")
               THEN /\ DOMAIN remote = {ExpectedRemotePath(r)}
                    /\ remote[ExpectedRemotePath(r)] = req[r].fileData
               ELSE remote = << >>

\* a remote write under a non-empty prefix succeeded, with a non-empty body
C13_Witness ==
    \E r \in Reqs :
        /\ agfsUploadPath # << >> /\ Succeeded(r, "AgfsWrite") /\ NoFailure(r)
        /\ req[r].body # << >>
        /\ remote[<<"/", "u", "p", "/">> \o req[r].filename] = WavOf(r)

(***************************************************************************)
(* C14                                                                     *)
(***************************************************************************)
\* the steps of saveFileLocally in the order of the code
LocalOrder == <<"MkdirAll", "Open", "CreateDest", "Copy">>

IsLocalCall(c) == c.op \in LocalOps

\* the calls r made inside saveFileLocally, in the order it made them
LocalCallsOf(r) == SelectSeq(req[r].calls, IsLocalCall)

\* C14: the steps of saveFileLocally run in the order create directory, open
\* source, create destination, copy; a failing step is the last one to run
\* and the function returns the error of that step, the four errors being
\* pairwise distinct; a failing directory creation leaves no directory and no
\* destination file, a failing open or create no destination file; the
\* function returns nil only after all four steps succeeded.
C14_SaveFileLocallySteps ==
    \A r \in Reqs :
        LET steps == LocalCallsOf(r)
            n == Len(steps)
        IN  /\ n <= 4
            /\ \A i \in 1..n : steps[i].op = LocalOrder[i]
            /\ \A i \in 1..(n - 1) : steps[i].ok
            /\ (n > 0 /\ ~steps[n].ok) =>
                  /\ req[r].calls[Len(req[r].calls)] = steps[n]
                  /\ Done(r)
                  /\ req[r].err = SaveError(steps[n].op)
                  /\ \A op \in LocalOps \ {steps[n].op} : req[r].err # SaveError(op)
                  /\ steps[n].op = "MkdirAll" => dirs = {}
                  /\ steps[n].op \in {"MkdirAll", "Open", "CreateDest"} => ~Stored(r)
            /\ (n > 0 /\ Done(r) /\ req[r].err = "") =>
                  (n = 4 /\ \A i \in 1..4 : steps[i].ok)
            /\ (n = 4 /\ steps[4].ok) => (Done(r) /\ req[r].err = "")

\* the source open failed after the directory was created: no destination
C14_Witness ==
    \E r \in Reqs :
        /\ Done(r) /\ Succeeded(r, "MkdirAll") /\ Failed(r, "Open")
        /\ req[r].err = "failed to open source file"
        /\ dirs # {} /\ ~Stored(r)

(***************************************************************************)
(* C15                                                                     *)
(***************************************************************************)
\* r is at the call of agfsClient.Write, which has not returned
InRemoteWrite(r) == req[r].pc = "agfsWrite"

\* C15: a request whose remote write has not returned has no response; every
\* request, whatever the other requests do and wherever they wait,
\* eventually either has its response for good or waits in its own remote
\* write: no request waits for anything but its own remote write.
C15_BlockingIsPerRequest ==
    /\ [](\A r \in Reqs : InRemoteWrite(r) => (req[r].status = 0 /\ req[r].respBody = ""))
    /\ \A r \in Reqs : <>[](Done(r) \/ InRemoteWrite(r))

\* one request waits in its remote write and the other has completed with
\* a response after a remote write of its own
C15_Witness ==
    \E r, q \in Reqs :
        /\ r # q /\ InRemoteWrite(r) /\ req[r].status = 0
        /\ Done(q) /\ req[q].status = 200 /\ UploadSucceeded(q)

(***************************************************************************)
(* C16                                                                     *)
(***************************************************************************)
\* no other request has generated the filename of r
OwnName(r) == \A q \in Reqs \ {r} : req[q].filename # req[r].filename

\* what the two temp-file writes of r leave in a temp file no one else
\* touches: n bytes of its header, then m bytes of its body, all of them
\* when the write succeeded
OwnTempContents(r) ==
    {SubSeq(Header(req[r].body), 1, n) \o SubSeq(req[r].body, 1, m) :
        n \in {k \in 0..44 : Succeeded(r, "WriteHeader") => k = 44},
        m \in {k \in 0..Len(req[r].body) : Succeeded(r, "WriteBody") => k = Len(req[r].body)}}

\* the status of a request handled alone, by the outcomes of its own calls
AloneStatus(r) ==
    IF Failed(r, "ReadAll") THEN 400
    ELSE IF Failed(r, "CreateTemp") \/ LocalFailed(r) THEN 500
    ELSE 200

\* C16: a completed request whose filename no other request has generated
\* has the status and the files of a request handled alone: the status is
\* given by the outcomes of its own calls; its temp file holds what its own
\* two writes put there; the file stored under its filename (local
\* directory or remote path) is that content, a prefix of it when the copy
\* failed, and there is no such file when no write of its own created one.
C16_DifferentNamesAreIndependent ==
    \A r \in Reqs :
        (Done(r) /\ OwnName(r)) =>
            /\ req[r].status = AloneStatus(r)
            /\ PastTemp(r) =>
                  LET temp == fs[TempFilePath(req[r].filename)]
                  IN  /\ temp \in OwnTempContents(r)
                      /\ Len(temp) = req[r].tempOff
                      /\ IF Succeeded(r, "AgfsWrite")
                         THEN remote[FullPath(req[r].filename)] = temp
                         ELSE ~Exists(remote, FullPath(req[r].filename))
                      /\ IF LocalSucceeded(r) THEN fs[DestPath(req[r].filename)] = temp
                         ELSE IF Failed(r, "Copy")
                         THEN Stored(r) /\ IsPrefix(fs[DestPath(req[r].filename)], temp)
                         ELSE ~Stored(r)

\* two requests with different filenames and different bodies are complete
\* and each has its own complete file in the local storage directory
C16_Witness ==
    \E r, q \in Reqs :
        /\ r # q /\ Done(r) /\ Done(q)
        /\ req[r].filename # NoName /\ req[q].filename # NoName
        /\ req[r].filename # req[q].filename
        /\ req[r].body # << >> /\ req[q].body # << >>
        /\ req[r].status = 200 /\ req[q].status = 200
        /\ ~RemoteConfigured
        /\ fs[DestPath(req[r].filename)] = WavOf(r)
        /\ fs[DestPath(req[q].filename)] = WavOf(q)

(***************************************************************************)
(* C17                                                                     *)
(***************************************************************************)
\* m is x mod 2^32, for a Go int x below 2 * 2^32: m is below 2^32 and x is
\* m or m + 2^32
IsMod32(m, x) ==
    /\ LessDigits(m, TwoTo32)
    /\ (x = m \/ x = AddInt(m, TwoTo32))

\* C17: for every non-negative length L createWAVHeader returns a 44-byte
\* header (there is no error result); whatever L is, also when 36+L does not
\* fit in 32 bits, the RIFF-size field holds (36+L) mod 2^32, the data-size
\* field holds L mod 2^32 and every other field holds its fixed value.
C17_SizesWrap ==
    Encoded =>
        LET L == PayloadLen(wav.payload)
            riff == Widen(Field(wav.header, 4, 4))
            data == Widen(Field(wav.header, 40, 4))
        IN  /\ LessDigits(AddInt(L, ToInt(36)), AddInt(TwoTo32, TwoTo32))
            /\ IsMod32(riff, AddInt(L, ToInt(36)))
            /\ IsMod32(data, L)
            /\ DecodesTo(wav.header, riff, data)
            /\ \A i \in 1..44 : wav.header[i] \in 0..255

\* a header built for L = 2^32 + 1: both sizes wrap, 36+L to 37 and L to 1
C17_Witness ==
    /\ wav.pc = "encoded"
    /\ PayloadLen(wav.payload) = AddInt(TwoTo32, ToInt(1))
    /\ Widen(Field(wav.header, 4, 4)) = ToInt(37)
    /\ Widen(Field(wav.header, 40, 4)) = ToInt(1)

(***************************************************************************)
(* C18                                                                     *)
(***************************************************************************)
\* the bytes the destination that reported success received from r
Delivered(r) ==
    IF UploadSucceeded(r) THEN remote[FullPath(req[r].filename)]
    ELSE fs[DestPath(req[r].filename)]

\* C18: for a request handled alone, a 200 response implies that exactly
\* one destination (remote or local, not both) reported a successful write
\* and that the bytes delivered to it are createWAVHeader(len(body)) ++ body,
\* whatever the outcomes of the two temp-file writes were.
C18_OkMeansCompleteFile ==
    \A r \in Reqs :
        (Done(r) /\ req[r].status = 200) =>
            /\ UploadSucceeded(r) # LocalSucceeded(r)
            /\ Delivered(r) = WavOf(r)

(***************************************************************************)
(* C19                                                                     *)
(***************************************************************************)
\* C19: with no remote target configured, the remote-capable handler and
\* the local-only handler take the same steps: from every state, for the
\* same body, file name and outcomes of the filesystem calls, a step of the
\* one is a step of the other, so that both leave the same response status
\* and text and the same temp file and local storage file; the two mains
\* start serving in the same state.
C19_LocalOnlyEquivalence ==
    [][~RemoteConfigured =>
        /\ \A r \in Reqs : HandlerV1(r) <=> HandlerV2(r)
        /\ ~RemoteConfigured' => (MainV1 <=> \E u \in ApiUrls, p \in UploadPaths : Main(u, p))]_vars

\* without a remote target a request ended in the error response of a
\* failed copy, the partly written destination file left behind
C19_Witness ==
    \E r \in Reqs :
        /\ ~RemoteConfigured /\ Done(r) /\ Failed(r, "Copy")
        /\ req[r].status = 500
        /\ req[r].respBody = "Failed to save file to local storage"
        /\ Stored(r)

====
